---- MODULE Spec2Model ----
(***************************************************************************)
(* Model of the lexer of the "please" task runner (src/lexer.rs) and of    *)
(* its diagnostics (src/error.rs).                                         *)
(*                                                                         *)
(* Characters are Unicode scalar values (natural numbers), so that the     *)
(* range tests of is_in_range and the byte width of len_utf8 are computed  *)
(* as the code computes them.  Option<T> is a sequence of length <= 1:     *)
(* None is <<>> and Some(x) is <<x>>.  A Result<(), Error> of a method     *)
(* taking &mut self is the record [self |-> lexer after the call,          *)
(* err |-> None or Some(error)].                                           *)
(***************************************************************************)
EXTENDS Integers, Sequences, FiniteSets, TLC

VARIABLES
    text,      \* the &str handed to Lexer::lex / Lexer::new
    input,     \* Lexer.input: the characters not yet read from the text
    token,     \* Lexer.token: Option<Token>
    ch,        \* Lexer.ch: Option<char>
    line,      \* Lexer.line (0-based)
    col,       \* Lexer.col (0-based, in bytes)
    errs,      \* Lexer.errs: accrued errors
    state,     \* Lexer.state: the mode stack
    pc,        \* control point of the caller (Lexer::lex or an iterator client)
    pending,   \* the Err held in the local `res` of next() while it retries
    ret,       \* value returned by the last completed next()
    res,       \* the Vec<Token> collected by Lexer::lex
    result,    \* the value returned by Lexer::lex
    out,       \* the lines written by Display for MultipleErrors
    diag,      \* a diagnostic materialized from a token by Token::error
    attempts,  \* history: one record per advance attempt
    extra,     \* history: number of next() calls made after next() returned None
    expectCall \* history: the last call of expect, its argument and its outcome

vars == <<text, input, token, ch, line, col, errs, state, pc, pending, ret,
          res, result, out, diag, attempts, extra, expectCall>>

lexerVars == <<input, token, ch, line, col, errs, state>>

----------------------------------------------------------------------------
(* Bounds *)

MaxLen == 3
MaxWordLen == 4
MaxDisplayLen == 7
MaxLiveLen == 3
MaxExtraCalls == 2
MaxExpectLen == 2
MaxDepth == 2
MaxErrs == 12

----------------------------------------------------------------------------
(* Characters *)

NUL == 0              \* '\0'
NEWLINE == 10         \* '\n'
PAREN_L == 40         \* '('
PAREN_R == 41         \* ')'
DIGIT_0 == 48         \* '0'
DIGIT_9 == 57         \* '9'
COLON == 58           \* ':'
AT == 64              \* '@'
UPPER_A == 65         \* 'A'
UPPER_Z == 90         \* 'Z'
UNDERSCORE == 95      \* '_'
LOWER_A == 97         \* 'a'
LOWER_Z == 122        \* 'z'

FileName == "pleasefile"

None == <<>>
Some(x) == <<x>>

\* char::len_utf8
len_utf8(c) ==
    IF c < 128 THEN 1
    ELSE IF c < 2048 THEN 2
    ELSE IF c < 65536 THEN 3
    ELSE 4

is_in_range(c, low, high) ==
    IF c = None THEN FALSE ELSE low <= c[1] /\ c[1] <= high

is_decimal_digit(c) == is_in_range(c, DIGIT_0, DIGIT_9)

is_ident_start(c) ==
    \/ is_in_range(c, LOWER_A, LOWER_Z)
    \/ is_in_range(c, UPPER_A, UPPER_Z)
    \/ c = Some(UNDERSCORE)

\* is_ident_continue forgetting the digits
is_ident_continue_without_digits(c) == is_ident_start(c)

is_ident_continue(c) == is_ident_start(c) \/ is_decimal_digit(c)

----------------------------------------------------------------------------
(* Tokens and diagnostics *)

\* the keyword table with its last entry left out
KEYWORDS_without_else ==
    { <<102, 111, 114>>,         \* "for"
      <<105, 110>>,              \* "in"
      <<105, 102>> }             \* "if"

KEYWORDS ==
    { <<102, 111, 114>>,         \* "for"
      <<105, 110>>,              \* "in"
      <<105, 102>>,              \* "if"
      <<101, 108, 115, 101>> }   \* "else"

interned_keywords == KEYWORDS

\* TokenKind: the tag and, for the three payload-carrying kinds, the text
Kind(tag) == [tag |-> tag, text |-> <<>>]
KindText(tag, s) == [tag |-> tag, text |-> s]

\* CompilationErrorKind
UnexpectedChar(c) == [kind |-> "UnexpectedChar", ch |-> c]
ExpectedButGot(expected, got) ==
    [kind |-> "ExpectedButGot", expected |-> expected, got |-> got]
Internal(message) == [kind |-> "Internal", message |-> message]

CompilationError_new(kind, filename, l, c) ==
    [line |-> l, column |-> c, filename |-> filename, kind |-> kind]

Token_error(tok, kind) ==
    [column |-> tok.col, line |-> tok.line, filename |-> tok.filename,
     kind |-> kind]

\* State
Normal == [tag |-> "Normal"]
Indented(indentation) == [tag |-> "Indented", indentation |-> indentation]
Text == [tag |-> "Text"]
Interpolation(start_col, start_row) ==
    [tag |-> "Interpolation", interpolation_start_col |-> start_col,
     interpolation_start_row |-> start_row]

----------------------------------------------------------------------------
(* The Lexer as a value, and the results of its methods *)

Self ==
    [input |-> input, token |-> token, ch |-> ch, line |-> line, col |-> col,
     errs |-> errs, state |-> state]

Ok(self) == [self |-> self, err |-> None]
Err(e, self) == [self |-> self, err |-> Some(e)]
is_err(r) == r.err # None

is_eof(self) == self.ch = None

ch_is(self, c) == self.ch = Some(c)

nextch(self) == IF self.input = <<>> THEN None ELSE Some(Head(self.input))

nextch_is(self, c) == nextch(self) = Some(c)

\* error() without the offset of the 0-based column
error_zero_based_column(self, kind) ==
    CompilationError_new(kind, FileName, self.line + 1, self.col)

error(self, kind) ==
    CompilationError_new(kind, FileName, self.line + 1, self.col + 1)

internal_error(self, message) == error(self, Internal(message))

make_token(self, kind) ==
    [line |-> self.line, col |-> self.col, kind |-> kind, filename |-> FileName]

\* self.input.next()
input_next(self) ==
    IF self.input = <<>>
    THEN [self EXCEPT !.ch = None]
    ELSE [self EXCEPT !.ch = Some(Head(self.input)), !.input = Tail(self.input)]

bump(self) ==
    IF self.ch # None
    THEN LET c == self.ch[1]
             moved ==
                 IF c = NEWLINE
                 THEN [self EXCEPT !.col = 0, !.line = self.line + 1]
                 ELSE IF c = NUL
                 THEN self
                 ELSE [self EXCEPT !.col = self.col + len_utf8(c)]
         IN  Ok(input_next(moved))
    ELSE Err(internal_error(self, "Lexer advanced past end of text"), self)

\* expect(c)
expect(self, c) ==
    IF self.ch # Some(c)
    THEN LET e == error(self, ExpectedButGot(c, IF self.ch = None THEN NUL
                                                 ELSE self.ch[1]))
             b == bump(self)
         IN  IF is_err(b) THEN b ELSE Err(e, b.self)
    ELSE bump(self)

\* Chars::size_hint().1 of the characters left in input: their length in
\* bytes (nothing is ever peeked, so Peekable adds nothing)
RECURSIVE input_size_hint_upper(_)
input_size_hint_upper(chars) ==
    IF chars = <<>> THEN 0
    ELSE len_utf8(Head(chars)) + input_size_hint_upper(Tail(chars))

size_hint(self) == [lower |-> 0, upper |-> Some(input_size_hint_upper(self.input))]

get_state(self) ==
    IF self.state = <<>>
    THEN [value |-> None,
          err |-> Some(internal_error(self, "attempted to access empty lexer state stack"))]
    ELSE [value |-> Some(self.state[Len(self.state)]), err |-> None]

pop_state(self) ==
    IF self.state = <<>>
    THEN Err(internal_error(self, "attempted to pop empty lexer state stack"), self)
    ELSE Ok([self EXCEPT !.state = SubSeq(self.state, 1, Len(self.state) - 1)])

\* lex_single moving past two characters, as lex_double does
lex_single_bumps_twice(self, kind) ==
    LET tok == make_token(self, kind)
        b1 == bump(self)
    IN  IF is_err(b1) THEN b1
        ELSE LET b2 == bump(b1.self)
             IN  IF is_err(b2) THEN b2
                 ELSE Ok([b2.self EXCEPT !.token = Some(tok)])

lex_single(self, kind) ==
    LET tok == make_token(self, kind)
        b == bump(self)
    IN  IF is_err(b) THEN b
        ELSE Ok([b.self EXCEPT !.token = Some(tok)])

lex_double(self, kind) ==
    LET tok == make_token(self, kind)
        b1 == bump(self)
    IN  IF is_err(b1) THEN b1
        ELSE LET b2 == bump(b1.self)
             IN  IF is_err(b2) THEN b2
                 ELSE Ok([b2.self EXCEPT !.token = Some(tok)])

\* the while loop of lex_identifier: the result carries the text read so far
RECURSIVE ident_loop(_, _)
ident_loop(self, ident) ==
    IF is_ident_continue(self.ch)
    THEN LET b == bump(self)
         IN  IF is_err(b) THEN [r |-> b, ident |-> ident]
             ELSE ident_loop(b.self, Append(ident, self.ch[1]))
    ELSE [r |-> Ok(self), ident |-> ident]

lex_identifier(self) ==
    LET l == self.line
        c == self.col
        loop == ident_loop(self, <<>>)
    IN  IF is_err(loop.r) THEN loop.r
        ELSE LET interned == loop.ident
                 kind == IF interned \in interned_keywords
                         THEN KindText("Keyword", interned)
                         ELSE KindText("Identifier", interned)
             IN  Ok([loop.r.self EXCEPT !.token =
                        Some([line |-> l, col |-> c, kind |-> kind,
                              filename |-> FileName])])

\* lex_normal reporting an unexpected character without moving past it
lex_normal_no_resync(self) ==
    IF ch_is(self, AT) THEN lex_single(self, Kind("At"))
    ELSE IF ch_is(self, COLON) THEN lex_single(self, Kind("Colon"))
    ELSE IF ch_is(self, PAREN_L) THEN lex_single(self, Kind("ParenL"))
    ELSE IF ch_is(self, PAREN_R) THEN lex_single(self, Kind("ParenR"))
    ELSE IF is_ident_start(self.ch) THEN lex_identifier(self)
    ELSE Err(error(self, UnexpectedChar(self.ch[1])), self)

\* lex_normal skipping the character after an unexpected one as well
lex_normal_skips_two(self) ==
    IF ch_is(self, AT) THEN lex_single(self, Kind("At"))
    ELSE IF ch_is(self, COLON) THEN lex_single(self, Kind("Colon"))
    ELSE IF ch_is(self, PAREN_L) THEN lex_single(self, Kind("ParenL"))
    ELSE IF ch_is(self, PAREN_R) THEN lex_single(self, Kind("ParenR"))
    ELSE IF is_ident_start(self.ch) THEN lex_identifier(self)
    ELSE LET e == error(self, UnexpectedChar(self.ch[1]))
             b == bump(self)
         IN  IF is_err(b) THEN b
             ELSE IF b.self.ch = None THEN Err(e, b.self)
             ELSE Err(e, bump(b.self).self)

lex_normal(self) ==
    IF ch_is(self, AT) THEN lex_single(self, Kind("At"))
    ELSE IF ch_is(self, COLON) THEN lex_single(self, Kind("Colon"))
    ELSE IF ch_is(self, PAREN_L) THEN lex_single(self, Kind("ParenL"))
    ELSE IF ch_is(self, PAREN_R) THEN lex_single(self, Kind("ParenR"))
    ELSE IF is_ident_start(self.ch) THEN lex_identifier(self)
    ELSE LET e == error(self, UnexpectedChar(self.ch[1]))
             b == bump(self)
         IN  IF is_err(b) THEN b ELSE Err(e, b.self)

\* advance closing the current mode each time it finds the end of the text
advance_pops_at_eof(self) ==
    IF is_eof(self)
    THEN LET p == pop_state(self)
         IN  IF is_err(p) THEN p ELSE Ok([p.self EXCEPT !.token = None])
    ELSE LET st == get_state(self)
         IN  IF st.err # None THEN Err(st.err[1], self)
             ELSE IF st.value[1].tag = "Normal" THEN lex_normal(self)
             ELSE Err(internal_error(self, "Unexpected state"), self)

\* advance leaving the last token in place at the end of the text
advance_keeps_token_at_eof(self) ==
    IF is_eof(self)
    THEN Ok(self)
    ELSE LET st == get_state(self)
         IN  IF st.err # None THEN Err(st.err[1], self)
             ELSE IF st.value[1].tag = "Normal" THEN lex_normal(self)
             ELSE Err(internal_error(self, "Unexpected state"), self)

advance(self) ==
    IF is_eof(self)
    THEN Ok([self EXCEPT !.token = None])
    ELSE LET st == get_state(self)
         IN  IF st.err # None THEN Err(st.err[1], self)
             ELSE IF st.value[1].tag = "Normal" THEN lex_normal(self)
             ELSE Err(internal_error(self, "Unexpected state"), self)

\* Lexer::new starting from an empty mode stack
new_lexer_empty_stack(t) ==
    [input |-> t, token |-> None, ch |-> Some(NUL), line |-> 0, col |-> 0,
     errs |-> <<>>, state |-> <<>>]

\* The value built by Lexer::new before its first bump
new_lexer(t) ==
    [input |-> t, token |-> None, ch |-> Some(NUL), line |-> 0, col |-> 0,
     errs |-> <<>>, state |-> <<Normal>>]

\* lex keeping only as many errors as the display shows
lex_result_truncated(es, toks) ==
    IF es = <<>>
    THEN [ok |-> TRUE, aggregate |-> FALSE, tokens |-> toks, errs |-> <<>>]
    ELSE [ok |-> FALSE, aggregate |-> TRUE, tokens |-> <<>>,
          errs |-> SubSeq(es, 1, IF Len(es) > 5 THEN 5 ELSE Len(es))]

\* lex returning a lone error bare instead of wrapping it in the aggregate
lex_result_bare_single(es, toks) ==
    IF es = <<>>
    THEN [ok |-> TRUE, aggregate |-> FALSE, tokens |-> toks, errs |-> <<>>]
    ELSE [ok |-> FALSE, aggregate |-> Len(es) > 1, tokens |-> <<>>, errs |-> es]

\* The value returned by Lexer::lex once next() has returned None
lex_result(es, toks) ==
    IF es = <<>>
    THEN [ok |-> TRUE, aggregate |-> FALSE, tokens |-> toks, errs |-> <<>>]
    ELSE [ok |-> FALSE, aggregate |-> TRUE, tokens |-> <<>>, errs |-> es]

\* Display for MultipleErrors: the lines written, one record per writeln!
RECURSIVE detail_lines(_, _, _)
detail_lines(es, from, to) ==
    IF from > to THEN <<>>
    ELSE <<[fmt |-> "\t{}", arg |-> Some(es[from])]>> \o detail_lines(es, from + 1, to)

\* Display capping at five errors or more instead of more than five
fmt_caps_at_five(es) ==
    LET header == IF Len(es) > 1
                  THEN <<[fmt |-> "multiple errors:", arg |-> None]>>
                  ELSE <<>>
        body == IF Len(es) >= 5
                THEN detail_lines(es, 1, 5)
                     \o <<[fmt |-> "\t{} other errors omitted.",
                           arg |-> Some(Len(es) - 5)]>>
                ELSE detail_lines(es, 1, Len(es))
    IN  header \o body

fmt(es) ==
    LET header == IF Len(es) > 1
                  THEN <<[fmt |-> "multiple errors:", arg |-> None]>>
                  ELSE <<>>
        body == IF Len(es) > 5
                THEN detail_lines(es, 1, 5)
                     \o <<[fmt |-> "\t{} other errors omitted.",
                           arg |-> Some(Len(es) - 5)]>>
                ELSE detail_lines(es, 1, Len(es))
    IN  header \o body

----------------------------------------------------------------------------
(* Inputs *)

BoundedSeq(S, n) == UNION { [1..k -> S] : k \in 0..n }

\* NUL, newline, '#', '(', ')', '+', ':', '=', '@', '1', 'a', '_',
\* e-acute (2 bytes), euro sign (3 bytes), grinning face (4 bytes)
Alphabet ==
    {0, 10, 35, 40, 41, 43, 58, 61, 64, 49, 97, 95, 233, 8364, 128512}

\* 'e', 'f', 'i', 'l', 'n', 'o', 'r', 's', 'F', '_', '1'
WordAlphabet == {101, 102, 105, 108, 110, 111, 114, 115, 70, 95, 49}

\* '#', '@'
DisplayAlphabet == {35, 64}

\* NUL, newline, '#', '1', '@', 'a'
LiveAlphabet == {0, 10, 35, 49, 64, 97}

\* "echo {{x}}\n"
EchoText == <<101, 99, 104, 111, 32, 123, 123, 120, 125, 125, 10>>

\* every contiguous piece of EchoText, the empty one included
EchoTexts ==
    { SubSeq(EchoText, i, j) : i \in 1..Len(EchoText), j \in 0..Len(EchoText) }

\* '#', ':', '@'
ExpectAlphabet == {35, 58, 64}

\* The arguments expect is called with
ExpectChars == {COLON, AT}

\* '#', '@'
ModeAlphabet == {35, 64}

\* The variants of State
States == {Normal, Indented(0), Text, Interpolation(0, 0)}

\* Kinds a consumer of the tokens reports through Token::error
DiagKinds == { ExpectedButGot(COLON, AT) }

----------------------------------------------------------------------------
(* Operations *)

Remaining(self) == Len(self.input) + (IF self.ch = None THEN 0 ELSE 1)

\* No text has been handed to the lexer yet
Init ==
    /\ text = <<>>
    /\ input = <<>>
    /\ token = None
    /\ ch = None
    /\ line = 0
    /\ col = 0
    /\ errs = <<>>
    /\ state = <<>>
    /\ pc = "start"
    /\ pending = None
    /\ ret = None
    /\ res = <<>>
    /\ result = None
    /\ out = None
    /\ diag = None
    /\ attempts = <<>>
    /\ extra = 0
    /\ expectCall = None

SetSelf(self) ==
    /\ input' = self.input
    /\ token' = self.token
    /\ ch' = self.ch
    /\ line' = self.line
    /\ col' = self.col
    /\ errs' = self.errs
    /\ state' = self.state

\* Lexer::lex is called with a text t of Texts; line 135:
\* let mut lex = Lexer::new(text, filename)?
New(Texts) ==
    /\ pc = "start"
    /\ \E t \in Texts :
          /\ text' = t
          /\ \E r \in {bump(new_lexer(t))} :
                 IF is_err(r)
                 THEN /\ result' = Some([ok |-> FALSE, aggregate |-> FALSE,
                                         tokens |-> <<>>, errs |-> <<r.err[1]>>])
                      /\ pc' = "done"
                      /\ UNCHANGED lexerVars
                 ELSE /\ SetSelf(r.self)
                      /\ pc' = "loop"
                      /\ UNCHANGED result
    /\ UNCHANGED <<pending, ret, res, out, diag, attempts, extra, expectCall>>

\* A Lexer built as Lexer::new builds it, but over a mode stack of Stacks
NewIn(Texts, Stacks) ==
    /\ pc = "start"
    /\ \E t \in Texts, stack \in Stacks :
          /\ text' = t
          /\ \E r \in {bump([new_lexer(t) EXCEPT !.state = stack])} :
                 IF is_err(r)
                 THEN /\ result' = Some([ok |-> FALSE, aggregate |-> FALSE,
                                         tokens |-> <<>>, errs |-> <<r.err[1]>>])
                      /\ pc' = "done"
                      /\ UNCHANGED lexerVars
                 ELSE /\ SetSelf(r.self)
                      /\ pc' = "loop"
                      /\ UNCHANGED result
    /\ UNCHANGED <<pending, ret, res, out, diag, attempts, extra, expectCall>>

\* expect(c) is called on the lexer between two calls of next()
Expect ==
    /\ pc \in {"loop", "end"}
    /\ \E c \in ExpectChars :
          \E r \in {expect(Self, c)} :
              /\ SetSelf(r.self)
              /\ expectCall' = Some([c |-> c, ch |-> ch, line |-> line, col |-> col,
                                     before |-> Remaining(Self),
                                     after |-> Remaining(r.self),
                                     err |-> r.err])
    /\ UNCHANGED <<text, pc, pending, ret, res, result, out, diag, attempts, extra>>

\* What next() does with the outcome r of the advance attempt made on self:
\* an Err keeps it in its loop, an Ok makes it return self.token.clone(),
\* which the caller's `while let Some(t)` pushes or takes as the end.
AfterAdvance(self, r) ==
    /\ SetSelf(r.self)
    /\ attempts' = Append(attempts,
                          [failed |-> is_err(r), eof |-> is_eof(self),
                           before |-> Remaining(self),
                           after |-> Remaining(r.self),
                           line |-> self.line, col |-> self.col,
                           token |-> IF is_err(r) THEN None ELSE r.self.token,
                           err |-> r.err,
                           hint |-> size_hint(self)])
    /\ IF is_err(r)
       THEN /\ pc' = "retry"
            /\ pending' = r.err
            /\ UNCHANGED <<ret, res>>
       ELSE /\ pending' = None
            /\ ret' = r.self.token
            /\ IF r.self.token = None
               THEN /\ pc' = "end"
                    /\ UNCHANGED res
               ELSE /\ pc' = "loop"
                    /\ res' = Append(res, r.self.token[1])

\* next(), line 111: let mut res = self.advance()
NextBegin ==
    /\ pc \in {"loop", "end"}
    /\ IF pc = "end"
       THEN extra < MaxExtraCalls /\ extra' = extra + 1
       ELSE extra' = extra
    /\ \E r \in {advance(Self)} : AfterAdvance(Self, r)
    /\ UNCHANGED <<text, result, out, diag, expectCall>>

\* next(), lines 112-115: push the error, advance again
NextRetry ==
    /\ pc = "retry"
    /\ Len(errs) < MaxErrs
    /\ \E self \in {[Self EXCEPT !.errs = Append(errs, pending[1])]} :
          \E r \in {advance(self)} : AfterAdvance(self, r)
    /\ UNCHANGED <<text, result, out, diag, extra, expectCall>>

\* Lexer::lex, lines 140-144
LexReturn ==
    /\ pc = "end"
    /\ extra = 0
    /\ result' = Some(lex_result(errs, res))
    /\ pc' = "done"
    /\ UNCHANGED <<text, lexerVars, pending, ret, res, out, diag, attempts, extra, expectCall>>

\* The failure of the pass is displayed
Render ==
    /\ pc = "done"
    /\ result # None
    /\ result[1].aggregate
    /\ out = None
    /\ out' = Some(fmt(result[1].errs))
    /\ UNCHANGED <<text, lexerVars, pc, pending, ret, res, result, diag, attempts, extra, expectCall>>

\* A consumer of the returned tokens reports a diagnostic at one of them
TokenError ==
    /\ pc = "done"
    /\ result # None
    /\ result[1].ok
    /\ diag = None
    /\ \E i \in DOMAIN result[1].tokens, kind \in DiagKinds :
          diag' = Some([token |-> result[1].tokens[i],
                        error |-> Token_error(result[1].tokens[i], kind)])
    /\ UNCHANGED <<text, lexerVars, pc, pending, ret, res, result, out, attempts, extra, expectCall>>

Iterate ==
    \/ NextBegin
    \/ NextRetry
    \/ LexReturn
    \/ Render
    \/ TokenError

Next == New(BoundedSeq(Alphabet, MaxLen)) \/ Iterate

NextWords == New(BoundedSeq(WordAlphabet, MaxWordLen)) \/ Iterate

NextDisplay == New(BoundedSeq(DisplayAlphabet, MaxDisplayLen)) \/ Iterate

Spec == Init /\ [][Next]_vars

SpecWords == Init /\ [][NextWords]_vars

SpecDisplay == Init /\ [][NextDisplay]_vars

NextLive == New(BoundedSeq(LiveAlphabet, MaxLiveLen)) \/ Iterate

\* next() and lex() are plain sequential loops: a step that can be taken is taken
LiveSpec == Init /\ [][NextLive]_vars /\ WF_vars(NextLive)

NextEcho == New(EchoTexts) \/ Iterate

SpecEcho == Init /\ [][NextEcho]_vars

NextExpect == New(BoundedSeq(ExpectAlphabet, MaxExpectLen)) \/ Iterate \/ Expect

SpecExpect == Init /\ [][NextExpect]_vars

NextModes ==
    NewIn(BoundedSeq(ModeAlphabet, MaxLen), BoundedSeq(States, MaxDepth)) \/ Iterate

SpecModes == Init /\ [][NextModes]_vars

----------------------------------------------------------------------------
(* What the properties speak of, stated without the lexer's own operators *)

IsPunct(c) == c \in {64, 58, 40, 41}                  \* '@' ':' '(' ')'
IsIdentStart(c) == c \in (65..90) \cup (97..122) \cup {95}
IsDigit(c) == c \in 48..57
IsIdentChar(c) == IsIdentStart(c) \/ IsDigit(c)

\* s is a sequence of well-formed Normal-mode tokens
ValidSeg(s) ==
    \A i \in DOMAIN s :
        \/ IsPunct(s[i])
        \/ IsIdentStart(s[i])
        \/ IsDigit(s[i]) /\ i > 1 /\ IsIdentChar(s[i - 1])

\* text[p] is a character no token can start with or continue over
IllegalAt(p) ==
    /\ ~IsPunct(text[p])
    /\ ~IsIdentStart(text[p])
    /\ IsDigit(text[p]) => (p = 1 \/ ~IsIdentChar(text[p - 1]))

Before(p) == SubSeq(text, 1, p - 1)
After(p) == SubSeq(text, p + 1, Len(text))

OnlyIllegalAt(p) == IllegalAt(p) /\ ValidSeg(Before(p)) /\ ValidSeg(After(p))

Lexeme(tok) ==
    CASE tok.kind.tag = "At" -> <<64>>
      [] tok.kind.tag = "Colon" -> <<58>>
      [] tok.kind.tag = "ParenL" -> <<40>>
      [] tok.kind.tag = "ParenR" -> <<41>>
      [] tok.kind.tag = "Assign" -> <<61>>
      [] tok.kind.tag = "Add" -> <<43>>
      [] tok.kind.tag = "AddAssign" -> <<43, 61>>
      [] OTHER -> tok.kind.text

RECURSIVE Lexemes(_)
Lexemes(toks) ==
    IF toks = <<>> THEN <<>> ELSE Lexeme(Head(toks)) \o Lexemes(Tail(toks))

FailedAttempts == { i \in DOMAIN attempts : attempts[i].failed }

PassOver == pc \in {"end", "done"}

\* the attempts that produced a token, and where their token starts
TokenAttempts == { i \in DOMAIN attempts : attempts[i].token # None }
Offset(i) == Len(text) - attempts[i].before
Consumed(i) ==
    SubSeq(text, Offset(i) + 1, Offset(i) + attempts[i].before - attempts[i].after)

Utf8Len(c) == IF c <= 127 THEN 1 ELSE IF c <= 2047 THEN 2 ELSE IF c <= 65535 THEN 3 ELSE 4

RECURSIVE Bytes(_)
Bytes(s) == IF s = <<>> THEN 0 ELSE Utf8Len(Head(s)) + Bytes(Tail(s))

NewlinesIn(s) == Cardinality({ i \in DOMAIN s : s[i] = 10 })

\* the part of the text before offset n that lies on the line of offset n
LineBefore(n) ==
    LET nl == { i \in 1..n : text[i] = 10 }
        from == IF nl = {} THEN 1 ELSE (CHOOSE i \in nl : \A j \in nl : j <= i) + 1
    IN  SubSeq(text, from, n)

IdentShaped(s) ==
    /\ s # <<>>
    /\ IsIdentStart(s[1])
    /\ \A i \in DOMAIN s : IsIdentChar(s[i])

KeywordTexts ==
    { <<102, 111, 114>>, <<105, 110>>, <<105, 102>>, <<101, 108, 115, 101>> }

Min(a, b) == IF a <= b THEN a ELSE b

----------------------------------------------------------------------------
(* Properties *)

\* C1: Lexer::lex returns Ok(tokens) exactly when no advance attempt failed
\* during the pass, and otherwise the MultipleErrors aggregate of the accrued
\* errors, also when there is only one; never Ok with accrued errors, never
\* Err without.
LexOkIffNoFailedAdvance ==
    result # None =>
        /\ result[1].ok <=> (FailedAttempts = {})
        /\ result[1].ok <=> (errs = <<>>)
        /\ result[1].ok => result[1].tokens = res
        /\ ~result[1].ok => result[1].aggregate /\ result[1].errs = errs

\* a pass that returned the aggregate of exactly one error
LexFailedWithOneError ==
    /\ result # None
    /\ ~result[1].ok
    /\ Len(errs) = 1
    /\ Cardinality(FailedAttempts) = 1

\* C2: when the text is well-formed tokens around exactly one illegal
\* character, the pass yields the tokens before and after that character,
\* records exactly one UnexpectedChar error carrying it with its 1-based line
\* and column, consumes exactly that character in the failing scan, and fails.
OneIllegalCharResynchronizes ==
    PassOver =>
        \A p \in DOMAIN text :
            OnlyIllegalAt(p) =>
                /\ errs = << [line |-> 1, column |-> p, filename |-> FileName,
                              kind |-> [kind |-> "UnexpectedChar", ch |-> text[p]]] >>
                /\ \E k \in 0..Len(res) :
                      /\ Lexemes(SubSeq(res, 1, k)) = Before(p)
                      /\ Lexemes(SubSeq(res, k + 1, Len(res))) = After(p)
                /\ Cardinality(FailedAttempts) = 1
                /\ \A i \in FailedAttempts :
                      /\ attempts[i].before = Len(text) - p + 1
                      /\ attempts[i].after = attempts[i].before - 1
                /\ result # None => ~result[1].ok

\* the pass over "@#:" has returned
LexedAtHashColon ==
    /\ text = <<64, 35, 58>>
    /\ OnlyIllegalAt(2)
    /\ pc = "done"
    /\ Len(res) = 2
    /\ Len(errs) = 1

\* C3: once next() has returned None, every later call of next() returns None
\* again without a failed attempt and leaves the cursor, the current token,
\* the mode stack and the accrued errors as they were.
ExhaustionIsIdempotent ==
    [][ (pc = "end" /\ extra' # extra) =>
            /\ pc' = "end"
            /\ ret' = None
            /\ UNCHANGED lexerVars
            /\ UNCHANGED res
            /\ ~attempts'[Len(attempts')].failed ]_vars

\* next() was called again after the end of a pass that had yielded tokens
\* and recorded errors
CalledAgainAfterEnd ==
    /\ pc = "end"
    /\ extra >= 2
    /\ res # <<>>
    /\ errs # <<>>

\* C4: every advance attempt made while input remains consumes at least one
\* character, whether it succeeds or fails, and the pass reaches the end of
\* the input.
PassTerminates ==
    /\ [][ (attempts' # attempts /\ ch # None) =>
               Remaining(Self)' < Remaining(Self) ]_vars
    /\ <>(pc = "end" /\ ch = None)

\* the end was reached after attempts that failed and attempts that
\* produced a token
EndAfterFailuresAndTokens ==
    /\ pc = "end"
    /\ FailedAttempts # {}
    /\ \E i \in DOMAIN attempts : ~attempts[i].failed /\ ~attempts[i].eof

\* C5: the text "+=" is lexed as exactly one AddAssign token and no error,
\* a lone "+" as Add and a lone "=" as Assign.
PlusAssignIsOneToken ==
    PassOver =>
        /\ text = <<43, 61>> =>
              errs = <<>> /\ Len(res) = 1 /\ res[1].kind.tag = "AddAssign"
        /\ text = <<43>> =>
              errs = <<>> /\ Len(res) = 1 /\ res[1].kind.tag = "Add"
        /\ text = <<61>> =>
              errs = <<>> /\ Len(res) = 1 /\ res[1].kind.tag = "Assign"

\* C6: a token whose first character follows k newlines is at 1-based line
\* k + 1 and at the 1-based column counted in bytes from the start of that
\* line; "@\n:" yields At at line 1 column 1 and Colon at line 2 column 1.
TokenPositionsFollowLines ==
    /\ \A i \in TokenAttempts :
          /\ attempts[i].token[1].line + 1 = NewlinesIn(SubSeq(text, 1, Offset(i))) + 1
          /\ attempts[i].token[1].col + 1 = Bytes(LineBefore(Offset(i))) + 1
    /\ (PassOver /\ text = <<64, 10, 58>>) =>
          /\ Len(res) = 2
          /\ res[1].kind.tag = "At" /\ res[1].line + 1 = 1 /\ res[1].col + 1 = 1
          /\ res[2].kind.tag = "Colon" /\ res[2].line + 1 = 2 /\ res[2].col + 1 = 1

\* C7: an identifier-shaped lexeme is emitted as Keyword exactly when it is
\* one of for, in, if, else, and as Identifier otherwise, in both cases
\* carrying its exact text.
KeywordsArePartitioned ==
    /\ \A i \in TokenAttempts :
          LET tok == attempts[i].token[1]
          IN  tok.kind.tag \in {"Keyword", "Identifier"} =>
                  /\ tok.kind.text = Consumed(i)
                  /\ IdentShaped(tok.kind.text)
                  /\ (tok.kind.tag = "Keyword") <=> (tok.kind.text \in KeywordTexts)
    /\ (PassOver /\ IdentShaped(text)) =>
          /\ errs = <<>>
          /\ Len(res) = 1
          /\ res[1].kind.text = text
          /\ res[1].kind.tag = IF text \in KeywordTexts THEN "Keyword" ELSE "Identifier"

\* "else" was lexed as a keyword
LexedElseKeyword ==
    /\ PassOver
    /\ text = <<101, 108, 115, 101>>
    /\ res = <<[line |-> 0, col |-> 0, filename |-> FileName,
                kind |-> [tag |-> "Keyword", text |-> <<101, 108, 115, 101>>]]>>

\* C8: the characters consumed by an advance attempt, when none of them is a
\* newline, move the column by their UTF-8 byte lengths, a NUL of the text
\* counting one byte; only the priming sentinel is consumed without moving.
ColumnCountsBytes ==
    [][ /\ (pc = "start" /\ pc' # "start") => (line' = 0 /\ col' = 0)
        /\ (attempts' # attempts /\ ch # None) =>
              LET i == Len(attempts')
                  cs == SubSeq(text, Len(text) - attempts'[i].before + 1,
                               Len(text) - attempts'[i].after)
              IN  NewlinesIn(cs) = 0 => col' = col + Bytes(cs) ]_vars

\* C9: a diagnostic built at the cursor by Lexer::error and a diagnostic
\* built from a token by Token::error both carry the 0-based line and column
\* plus one.
DiagnosticsAreOneBased ==
    /\ \A i \in FailedAttempts :
          /\ attempts[i].err[1].line = attempts[i].line + 1
          /\ attempts[i].err[1].column = attempts[i].col + 1
    /\ diag # None =>
          /\ diag[1].error.line = diag[1].token.line + 1
          /\ diag[1].error.column = diag[1].token.col + 1

\* C10: the rendering of n errors has the header line exactly when n > 1,
\* then the first min(n, 5) errors in order, one per line, then the line
\* counting the n - 5 omitted errors exactly when n > 5.
DisplayCapsAtFive ==
    out # None =>
        LET es == result[1].errs
            n == Len(es)
            lines == out[1]
            h == IF n > 1 THEN 1 ELSE 0
            t == IF n > 5 THEN 1 ELSE 0
        IN  /\ Len(lines) = h + Min(n, 5) + t
            /\ n > 1 => lines[1].fmt = "multiple errors:"
            /\ \A k \in DOMAIN lines :
                  lines[k].fmt = "multiple errors:" => (k = 1 /\ n > 1)
            /\ \A i \in 1..Min(n, 5) :
                  lines[h + i].fmt = "\t{}" /\ lines[h + i].arg = <<es[i]>>
            /\ n > 5 => /\ lines[Len(lines)].fmt = "\t{} other errors omitted."
                        /\ lines[Len(lines)].arg = <<n - 5>>
            /\ \A k \in DOMAIN lines :
                  lines[k].fmt = "\t{} other errors omitted." => (k = Len(lines) /\ n > 5)

\* seven errors were rendered as header, five details and "2 other errors omitted."
RenderedSevenErrors ==
    /\ out # None
    /\ Len(result[1].errs) = 7
    /\ Len(out[1]) = 7
    /\ out[1][7].arg = <<2>>

----------------------------------------------------------------------------
(* History read back as sequences *)

\* the errors of the failed attempts, in the order of the attempts
RECURSIVE FailedErrs(_)
FailedErrs(as) ==
    IF as = <<>> THEN <<>>
    ELSE (IF Head(as).failed THEN Head(as).err ELSE <<>>) \o FailedErrs(Tail(as))

\* the tokens of the attempts that scanned one, in the order of the attempts
RECURSIVE ScannedTokens(_)
ScannedTokens(as) ==
    IF as = <<>> THEN <<>>
    ELSE (IF ~Head(as).failed /\ ~Head(as).eof THEN Head(as).token ELSE <<>>)
         \o ScannedTokens(Tail(as))

\* the characters the attempts account for: the lexeme of a scanned token,
\* the character of an UnexpectedChar error
RECURSIVE Accounted(_)
Accounted(as) ==
    IF as = <<>> THEN <<>>
    ELSE LET a == Head(as)
             part == IF a.failed
                     THEN IF a.err[1].kind.kind = "UnexpectedChar"
                          THEN <<a.err[1].kind.ch>> ELSE <<>>
                     ELSE IF a.token = None THEN <<>> ELSE Lexeme(a.token[1])
         IN  part \o Accounted(Tail(as))

AllErrors ==
    { errs[i] : i \in DOMAIN errs }
    \cup { pending[i] : i \in DOMAIN pending }
    \cup { attempts[i].err[1] : i \in FailedAttempts }
    \cup (IF result = None THEN {} ELSE { result[1].errs[i] : i \in DOMAIN result[1].errs })

----------------------------------------------------------------------------

\* C11: the accrued error list only grows by appending, holds the errors of
\* the failed attempts in the source order of the characters that caused
\* them, and the aggregate returned by lex holds every one of them, also
\* when there are more than five.
ErrorsAreCollectedInOrder ==
    /\ [][ Len(errs') >= Len(errs) /\ SubSeq(errs', 1, Len(errs)) = errs ]_vars
    /\ [](errs \o pending = FailedErrs(attempts))
    /\ [](\A i, j \in FailedAttempts :
              i < j => /\ Offset(i) < Offset(j)
                       /\ attempts[i].err[1].kind.ch = text[Offset(i) + 1]
                       /\ attempts[j].err[1].kind.ch = text[Offset(j) + 1])
    /\ [](result # None =>
              \/ result[1].ok /\ FailedAttempts = {}
              \/ ~result[1].ok /\ result[1].errs = FailedErrs(attempts))

\* lex returned an aggregate of seven errors
LexReturnedSevenErrors ==
    /\ pc = "done"
    /\ out = None
    /\ ~result[1].ok
    /\ Len(result[1].errs) = 7
    /\ Cardinality(FailedAttempts) = 7

\* C13: from Lexer::new on the mode stack is never empty, so state() never
\* fails with the empty-stack error and nothing pops an empty stack.
ModeStackNeverEmpty ==
    pc # "start" =>
        /\ state # <<>>
        /\ state[1] = [tag |-> "Normal"]
        /\ \A e \in AllErrors : e.kind.kind # "Internal"

\* the mode was consulted by several attempts of a pass
ModeConsultedThroughPass ==
    /\ pc = "end"
    /\ Len(attempts) >= 3
    /\ state = <<[tag |-> "Normal"]>>

\* C14: no text makes Lexer::new fail or any attempt fail with an error of
\* kind Internal: every recorded, pending or returned error is an
\* UnexpectedChar of the text.
NoInternalError ==
    /\ \A e \in AllErrors : e.kind.kind = "UnexpectedChar"
    /\ result # None => (result[1].ok \/ result[1].aggregate)

\* a text of nothing but unexpected characters was lexed to its end
LexedOnlyUnexpectedChars ==
    /\ pc = "done"
    /\ Len(text) >= 3
    /\ Len(errs) = Len(text)
    /\ res = <<>>

\* C17: the text of an Identifier or Keyword token is the maximal run of
\* identifier characters at its position, starting with a letter or
\* underscore; a digit where a token would start is an UnexpectedChar.
IdentifiersAreMaximal ==
    /\ \A i \in TokenAttempts :
          LET tok == attempts[i].token[1]
              end == Offset(i) + Len(tok.kind.text)
          IN  tok.kind.tag \in {"Identifier", "Keyword"} =>
                  /\ tok.kind.text # <<>>
                  /\ tok.kind.text = SubSeq(text, Offset(i) + 1, end)
                  /\ IsIdentStart(tok.kind.text[1])
                  /\ \A k \in DOMAIN tok.kind.text : IsIdentChar(tok.kind.text[k])
                  /\ end < Len(text) => ~IsIdentChar(text[end + 1])
    /\ \A i \in DOMAIN attempts :
          (~attempts[i].eof /\ IsDigit(text[Offset(i) + 1])) =>
              /\ attempts[i].failed
              /\ attempts[i].err[1].kind = [kind |-> "UnexpectedChar",
                                             ch |-> text[Offset(i) + 1]]

\* "a1_" was lexed as one identifier
LexedIdentifierWithDigit ==
    /\ PassOver
    /\ text = <<97, 49, 95>>
    /\ Len(res) = 1
    /\ res[1].kind = [tag |-> "Identifier", text |-> <<97, 49, 95>>]

\* C18: the lexemes of the scanned tokens and the characters of the
\* UnexpectedChar errors, in order, are exactly the text consumed so far, and
\* the whole text after the pass; on success the returned tokens span the
\* text, nothing being appended for the end of the stream.
EveryCharAccountedOnce ==
    pc # "start" =>
        /\ Accounted(attempts) = SubSeq(text, 1, Len(text) - Remaining(Self))
        /\ PassOver => Accounted(attempts) = text
        /\ (result # None /\ result[1].ok) => Lexemes(result[1].tokens) = text

\* "@a1" was lexed successfully into two tokens
LexedTwoTokensSpanningText ==
    /\ pc = "done"
    /\ text = <<64, 97, 49>>
    /\ result[1].ok
    /\ Len(result[1].tokens) = 2

\* C19: what next() returns comes from the last advance attempt of that
\* call: None at the end of the text, else the token scanned at the cursor
\* position of that attempt; the tokens returned are the scanned tokens in
\* order, none twice.
NextReturnsFreshToken ==
    (pc \in {"loop", "end", "done"} /\ attempts # <<>>) =>
        LET n == Len(attempts)
            a == attempts[n]
        IN  /\ ~a.failed
            /\ a.eof => ret = None
            /\ ~a.eof => /\ ret # None
                         /\ ret[1].line = a.line
                         /\ ret[1].col = a.col
                         /\ Lexeme(ret[1]) = Consumed(n)
            /\ res = ScannedTokens(attempts)
            /\ \A i, j \in DOMAIN res : i < j => res[i] # res[j]

\* next() returned None after a token, a failed attempt and the end
NoneAfterTokenAndFailure ==
    /\ pc = "end"
    /\ text = <<64, 35>>
    /\ ret = None
    /\ Len(res) = 1
    /\ Len(attempts) = 3
    /\ attempts[2].failed

RECURSIVE Tags(_)
Tags(toks) == IF toks = <<>> THEN <<>> ELSE <<Head(toks).kind.tag>> \o Tags(Tail(toks))

\* attempt i is the first one of a call of next()
BeginsCall(i) == i = 1 \/ ~attempts[i - 1].failed

\* the tokens scanned by attempt i and the attempts after it
ScannedFrom(i) ==
    Cardinality({ j \in DOMAIN attempts :
                    j >= i /\ ~attempts[j].failed /\ ~attempts[j].eof })

\* C12: "echo {{x}}\n" is lexed without error into a Command for "echo ",
\* InterpolationStart, Identifier("x") and InterpolationEnd, the mode being
\* Text again after the "}}".
InterpolationRoundTrip ==
    (PassOver /\ text = EchoText) =>
        /\ errs = <<>>
        /\ Tags(res) = <<"Command", "InterpolationStart", "Identifier",
                         "InterpolationEnd">>
        /\ res[1].kind.text = <<101, 99, 104, 111, 32>>
        /\ res[3].kind.text = <<120>>
        /\ state[Len(state)].tag = "Text"

SizeHintIsSound ==
    \A i \in DOMAIN attempts :
        BeginsCall(i) =>
            /\ attempts[i].hint.upper # None
            /\ attempts[i].hint.upper[1] >= ScannedFrom(i)
            /\ PassOver => attempts[i].hint.lower <= ScannedFrom(i)

\* C20: expect(c) consumes the current character and succeeds when it is c;
\* otherwise, also at the end of the text, it fails with ExpectedButGot of c
\* and the current character (NUL at the end) at the cursor's 1-based
\* position, never with an Internal error.
ExpectContract ==
    expectCall # None =>
        LET e == expectCall[1]
        IN  IF e.ch = Some(e.c)
            THEN e.err = None /\ e.after = e.before - 1
            ELSE /\ e.err # None
                 /\ e.err[1].kind.kind = "ExpectedButGot"
                 /\ e.err[1].kind.expected = e.c
                 /\ e.err[1].kind.got = (IF e.ch = None THEN 0 ELSE e.ch[1])
                 /\ e.err[1].line = e.line + 1
                 /\ e.err[1].column = e.col + 1

====
